---- MODULE Spec2Model ----
(***************************************************************************)
(* A model of src/src/preprocessing.py: the list cleaning and              *)
(* transformation functions, applied by a caller to list objects that     *)
(* live in a heap.                                                         *)
(*                                                                         *)
(* Python values are tagged records.  Finite numbers are exact rationals   *)
(* n/d (d > 0, lowest terms): a Python int has d = 1, a float is the       *)
(* rational it stands for, so the model follows the arithmetic of the      *)
(* code without the rounding of IEEE doubles.  The float results of        *)
(* math.sqrt and math.log10 that are irrational are kept symbolically.     *)
(***************************************************************************)
EXTENDS Integers, Sequences, FiniteSets, TLC

(***************************************************************************)
(* Bounds of the model.                                                    *)
(***************************************************************************)
MaxLen == 3

(***************************************************************************)
(* Exact rational arithmetic on pairs <<n, d>>.                            *)
(***************************************************************************)
Abs(x) == IF x < 0 THEN -x ELSE x

RECURSIVE GCD(_, _)
GCD(a, b) == IF b = 0 THEN a ELSE GCD(b, a % b)

RNorm(n, d) ==
    LET sn == IF d < 0 THEN -n ELSE n
        sd == Abs(d)
        g  == GCD(Abs(sn), sd)
    IN  <<sn \div g, sd \div g>>

\* Sums and products cancel common factors before they multiply.
RAdd(a, b) ==
    LET g == GCD(a[2], b[2])
    IN  RNorm(a[1] * (b[2] \div g) + b[1] * (a[2] \div g), (a[2] \div g) * b[2])
RNeg(a) == <<-a[1], a[2]>>
RSub(a, b) == RAdd(a, RNeg(b))
RMul(a, b) ==
    LET x == RNorm(a[1], b[2])
        y == RNorm(b[1], a[2])
    IN  <<x[1] * y[1], x[2] * y[2]>>
RInv(a) == IF a[1] < 0 THEN <<-a[2], -a[1]>> ELSE <<a[2], a[1]>>
RDiv(a, b) == RMul(a, RInv(b))
RLess(a, b) == a[1] * b[2] < b[1] * a[2]
RLeq(a, b) == a[1] * b[2] <= b[1] * a[2]
RInt(k) == <<k, 1>>

(***************************************************************************)
(* Python values.  tag is the type; n/d the number; fk the kind of float   *)
(* ("fin" finite, "nan", "inf", "ninf", and the symbolic results "sqrt":   *)
(* (n/d)/sqrt(rn/rd), "log10": log10(n/d)); s the characters of a str;     *)
(* items the elements of a list; id tells two NaN objects apart (every     *)
(* other value is equal to itself, so its identity never shows).           *)
(***************************************************************************)
Blank ==
    [tag |-> "none", n |-> 0, d |-> 1, fk |-> "fin", rn |-> 1, rd |-> 1,
     s |-> <<>>, items |-> <<>>, id |-> 0]

PyNone == Blank
PyInt(k) == [Blank EXCEPT !.tag = "int", !.n = k]
PyBool(b) == [Blank EXCEPT !.tag = "bool", !.n = IF b THEN 1 ELSE 0]
PyFloatR(r) == [Blank EXCEPT !.tag = "float", !.n = r[1], !.d = r[2]]
PyFloat(n, d) == PyFloatR(RNorm(n, d))
PyNaN(i) == [Blank EXCEPT !.tag = "float", !.fk = "nan", !.id = i]
PyInf == [Blank EXCEPT !.tag = "float", !.fk = "inf"]
PyNegInf == [Blank EXCEPT !.tag = "float", !.fk = "ninf"]
PyStr(chars) == [Blank EXCEPT !.tag = "str", !.s = chars]
PyList(xs) == [Blank EXCEPT !.tag = "list", !.items = xs]

Rat(v) == <<v.n, v.d>>
IsNumber(v) == v.tag \in {"int", "bool", "float"}
IsFinite(v) == IsNumber(v) /\ v.fk = "fin"
IsSymbolic(v) == v.tag = "float" /\ v.fk \in {"sqrt", "log10"}

(***************************************************************************)
(* a == b of Python.  Numbers of any type compare by value (1 == 1.0 ==    *)
(* True), a NaN equals nothing, lists compare element by element, where    *)
(* an element is first compared by identity (x is y or x == y).            *)
(***************************************************************************)
RECURSIVE PyEq(_, _)
PyEq(a, b) ==
    CASE IsNumber(a) /\ IsNumber(b) ->
            IF a.fk = "nan" \/ b.fk = "nan" THEN FALSE
            ELSE a.fk = b.fk /\ a.n = b.n /\ a.d = b.d /\ a.rn = b.rn /\ a.rd = b.rd
      [] a.tag = "str" /\ b.tag = "str" -> a.s = b.s
      [] a.tag = "none" /\ b.tag = "none" -> TRUE
      [] a.tag = "list" /\ b.tag = "list" ->
            /\ Len(a.items) = Len(b.items)
            /\ \A i \in 1..Len(a.items) :
                  a.items[i] = b.items[i] \/ PyEq(a.items[i], b.items[i])
      [] OTHER -> FALSE

\* v in xs of Python: some element is v itself or equals v.
PyIn(v, xs) == \E i \in 1..Len(xs) : xs[i] = v \/ PyEq(xs[i], v)

\* xs == ys of Python for two lists.
PyListEq(xs, ys) == PyEq(PyList(xs), PyList(ys))


(***************************************************************************)
(* a < b of Python on numbers: any comparison with a NaN is False.         *)
(***************************************************************************)
NumLt(a, b) ==
    CASE a.fk = "nan" \/ b.fk = "nan" -> FALSE
      [] a.fk = "inf" -> FALSE
      [] b.fk = "ninf" -> FALSE
      [] a.fk = "ninf" -> TRUE
      [] b.fk = "inf" -> TRUE
      [] OTHER -> RLess(Rat(a), Rat(b))

(***************************************************************************)
(* The test for a missing value, lines 30 and 49:                          *)
(*   v is None or v == "" or isinstance(v, float) and math.isnan(v)        *)
(***************************************************************************)
\* A slip: "not v", which also takes 0, False and an empty list for missing.
IsMissing_falsy(v) ==
    \/ v.tag = "none"
    \/ (v.tag = "str" /\ Len(v.s) = 0)
    \/ (v.tag = "float" /\ v.fk = "nan")
    \/ (IsFinite(v) /\ v.n = 0)
    \/ (v.tag = "list" /\ Len(v.items) = 0)

IsMissing(v) ==
    \/ v.tag = "none"
    \/ PyEq(v, PyStr(<<>>))
    \/ (v.tag = "float" /\ v.fk = "nan")

(***************************************************************************)
(* remove_missing_values: the loop over values, from index i on, with the  *)
(* list built so far.                                                      *)
(***************************************************************************)
RECURSIVE remove_missing_loop(_, _, _)
remove_missing_loop(values, i, cleaned) ==
    IF i > Len(values) THEN cleaned
    ELSE IF IsMissing(values[i])
         THEN remove_missing_loop(values, i + 1, cleaned)
         ELSE remove_missing_loop(values, i + 1, Append(cleaned, values[i]))

remove_missing_values(values) == remove_missing_loop(values, 1, <<>>)

(***************************************************************************)
(* fill_missing_values                                                     *)
(***************************************************************************)
RECURSIVE fill_missing_loop(_, _, _, _)
fill_missing_loop(values, fill_value, i, filled) ==
    IF i > Len(values) THEN filled
    ELSE IF IsMissing(values[i])
         THEN fill_missing_loop(values, fill_value, i + 1, Append(filled, fill_value))
         ELSE fill_missing_loop(values, fill_value, i + 1, Append(filled, values[i]))

\* A slip: the default 0 is written instead of fill_value.
fill_missing_values_default(values, fill_value) ==
    fill_missing_loop(values, PyInt(0), 1, <<>>)

fill_missing_values(values, fill_value) ==
    fill_missing_loop(values, fill_value, 1, <<>>)

(***************************************************************************)
(* remove_duplicates: v is appended when "v not in uniques".               *)
(***************************************************************************)
RECURSIVE remove_duplicates_loop(_, _, _)
remove_duplicates_loop(values, i, uniques) ==
    IF i > Len(values) THEN uniques
    ELSE IF ~PyIn(values[i], uniques)
         THEN remove_duplicates_loop(values, i + 1, Append(uniques, values[i]))
         ELSE remove_duplicates_loop(values, i + 1, uniques)

\* A slip: v is compared with the last element kept only, so that a value
\* is dropped only when it repeats the one before it.
RECURSIVE remove_duplicates_adjacent_loop(_, _, _)
remove_duplicates_adjacent_loop(values, i, uniques) ==
    IF i > Len(values) THEN uniques
    ELSE IF Len(uniques) = 0 \/ ~PyIn(values[i], <<uniques[Len(uniques)]>>)
         THEN remove_duplicates_adjacent_loop(values, i + 1, Append(uniques, values[i]))
         ELSE remove_duplicates_adjacent_loop(values, i + 1, uniques)

remove_duplicates_adjacent(values) == remove_duplicates_adjacent_loop(values, 1, <<>>)

\* A slip: uniques.insert(0, v), which returns the unique values backwards.
RECURSIVE remove_duplicates_front_loop(_, _, _)
remove_duplicates_front_loop(values, i, uniques) ==
    IF i > Len(values) THEN uniques
    ELSE IF ~PyIn(values[i], uniques)
         THEN remove_duplicates_front_loop(values, i + 1, <<values[i]>> \o uniques)
         ELSE remove_duplicates_front_loop(values, i + 1, uniques)

remove_duplicates_front(values) == remove_duplicates_front_loop(values, 1, <<>>)

remove_duplicates(values) == remove_duplicates_loop(values, 1, <<>>)

(***************************************************************************)
(* min(values) and max(values) of Python: the first element, replaced by   *)
(* each later element that is smaller (greater).                           *)
(***************************************************************************)
RECURSIVE PyMinFrom(_, _, _)
PyMinFrom(values, i, m) ==
    IF i > Len(values) THEN m
    ELSE PyMinFrom(values, i + 1, IF NumLt(values[i], m) THEN values[i] ELSE m)

PyMin(values) == PyMinFrom(values, 2, values[1])

RECURSIVE PyMaxFrom(_, _, _)
PyMaxFrom(values, i, m) ==
    IF i > Len(values) THEN m
    ELSE PyMaxFrom(values, i + 1, IF NumLt(m, values[i]) THEN values[i] ELSE m)

PyMax(values) == PyMaxFrom(values, 2, values[1])

(***************************************************************************)
(* min_max_normalize, on a list of finite numbers.  The quotient of two    *)
(* numbers is a float.                                                     *)
(***************************************************************************)
\* A slip: v is not moved by min_val before it is divided by the range.
MinMaxScale_unshifted(v, min_val, max_val, new_min, new_max) ==
    PyFloatR(RAdd(RMul(RDiv(Rat(v), RSub(Rat(max_val), Rat(min_val))),
                       RSub(Rat(new_max), Rat(new_min))),
                  Rat(new_min)))

\* A slip: the result is left in [0, 1], as the docstring of the function
\* has it, whatever new_min and new_max are.
MinMaxScale_unit(v, min_val, max_val, new_min, new_max) ==
    PyFloatR(RDiv(RSub(Rat(v), Rat(min_val)), RSub(Rat(max_val), Rat(min_val))))

MinMaxScale(v, min_val, max_val, new_min, new_max) ==
    PyFloatR(RAdd(RMul(RDiv(RSub(Rat(v), Rat(min_val)),
                            RSub(Rat(max_val), Rat(min_val))),
                       RSub(Rat(new_max), Rat(new_min))),
                  Rat(new_min)))

\* A slip: a list of equal values is mapped to new_min.
min_max_normalize_to_new_min(values, new_min, new_max) ==
    IF Len(values) = 0 THEN <<>>
    ELSE LET min_val == PyMin(values)
             max_val == PyMax(values)
         IN  IF PyEq(min_val, max_val)
             THEN [i \in 1..Len(values) |-> PyFloatR(Rat(new_min))]
             ELSE [i \in 1..Len(values) |->
                      MinMaxScale(values[i], min_val, max_val, new_min, new_max)]

min_max_normalize(values, new_min, new_max) ==
    IF Len(values) = 0 THEN <<>>
    ELSE LET min_val == PyMin(values)
             max_val == PyMax(values)
         IN  IF PyEq(min_val, max_val)
             THEN [i \in 1..Len(values) |-> PyFloat(0, 1)]
             ELSE [i \in 1..Len(values) |->
                      MinMaxScale(values[i], min_val, max_val, new_min, new_max)]

(***************************************************************************)
(* z_score_normalize, on a list of finite numbers.  std_dev is the square  *)
(* root of the variance: it is 0 exactly when the variance is, and a       *)
(* quotient by it is kept as (v - mean) / sqrt(variance).                  *)
(***************************************************************************)
RECURSIVE RSum(_, _)
RSum(rs, i) == IF i > Len(rs) THEN RInt(0) ELSE RAdd(rs[i], RSum(rs, i + 1))

ZMean(values) ==
    RDiv(RSum([i \in 1..Len(values) |-> Rat(values[i])], 1), RInt(Len(values)))

\* A slip: the sample variance, which divides by n - 1.
ZVariance_sample(values) ==
    LET mean_val == ZMean(values)
        sq(i) == RMul(RSub(Rat(values[i]), mean_val), RSub(Rat(values[i]), mean_val))
    IN  RDiv(RSum([i \in 1..Len(values) |-> sq(i)], 1),
             RInt(IF Len(values) > 1 THEN Len(values) - 1 ELSE 1))

ZVariance(values) ==
    LET mean_val == ZMean(values)
        sq(i) == RMul(RSub(Rat(values[i]), mean_val), RSub(Rat(values[i]), mean_val))
    IN  RDiv(RSum([i \in 1..Len(values) |-> sq(i)], 1), RInt(Len(values)))

DivBySqrt(r, radicand) ==
    [Blank EXCEPT !.tag = "float", !.fk = "sqrt", !.n = r[1], !.d = r[2],
                  !.rn = radicand[1], !.rd = radicand[2]]

z_score_normalize(values) ==
    IF Len(values) = 0 THEN <<>>
    ELSE LET mean_val == ZMean(values)
             variance == ZVariance(values)
         IN  IF variance[1] = 0
             THEN [i \in 1..Len(values) |-> PyFloat(0, 1)]
             ELSE [i \in 1..Len(values) |->
                      DivBySqrt(RSub(Rat(values[i]), mean_val), variance)]

(***************************************************************************)
(* clip_numerical_values: max(min(v, max_value), min_value).  min(a, b)    *)
(* is a unless b < a, max(a, b) is a unless b > a.                         *)
(***************************************************************************)
PyMin2(a, b) == IF NumLt(b, a) THEN b ELSE a
PyMax2(a, b) == IF NumLt(a, b) THEN b ELSE a

\* A slip: the two bounds change places, max(min(v, min_value), max_value).
clip_numerical_values_swapped(values, min_value, max_value) ==
    [i \in 1..Len(values) |-> PyMax2(PyMin2(values[i], min_value), max_value)]

clip_numerical_values(values, min_value, max_value) ==
    [i \in 1..Len(values) |-> PyMax2(PyMin2(values[i], max_value), min_value)]


(***************************************************************************)
(* int(v) of Python, line 150.  The outcome is the exception raised        *)
(* ("none" when there is none) and the integer.                            *)
(*   int, bool: the number; float: truncated toward zero, ValueError for   *)
(*   a NaN and OverflowError for an infinity; str: an optional sign and    *)
(*   decimal digits, blanks around them allowed, else ValueError; None     *)
(*   and list: TypeError.                                                  *)
(***************************************************************************)
Digits == <<"0", "1", "2", "3", "4", "5", "6", "7", "8", "9">>
IsDigit(c) == \E k \in 1..10 : Digits[k] = c
DigitVal(c) == (CHOOSE k \in 1..10 : Digits[k] = c) - 1

RECURSIVE LStrip(_)
LStrip(cs) == IF Len(cs) > 0 /\ cs[1] = " " THEN LStrip(Tail(cs)) ELSE cs

RECURSIVE RStrip(_)
RStrip(cs) ==
    IF Len(cs) > 0 /\ cs[Len(cs)] = " " THEN RStrip(SubSeq(cs, 1, Len(cs) - 1)) ELSE cs

\* The digits of cs from index i on, read after the number acc; a single
\* underscore may stand between two digits.
RECURSIVE ParseDigits(_, _, _)
ParseDigits(cs, i, acc) ==
    IF i > Len(cs) THEN [ok |-> TRUE, val |-> acc]
    ELSE IF IsDigit(cs[i]) THEN ParseDigits(cs, i + 1, 10 * acc + DigitVal(cs[i]))
    ELSE IF cs[i] = "_" /\ i > 1 /\ i < Len(cs) /\ IsDigit(cs[i - 1]) /\ IsDigit(cs[i + 1])
         THEN ParseDigits(cs, i + 1, acc)
    ELSE [ok |-> FALSE, val |-> 0]

ParseInt(chars) ==
    LET cs == RStrip(LStrip(chars))
        signed == Len(cs) > 0 /\ cs[1] \in {"+", "-"}
        body == IF signed THEN Tail(cs) ELSE cs
        p == IF Len(body) > 0 /\ IsDigit(body[1])
             THEN ParseDigits(body, 1, 0)
             ELSE [ok |-> FALSE, val |-> 0]
    IN  [ok |-> p.ok, val |-> IF signed /\ cs[1] = "-" THEN -p.val ELSE p.val]

Trunc(n, d) == IF n >= 0 THEN n \div d ELSE -((-n) \div d)

PyIntOf(v) ==
    CASE v.tag \in {"int", "bool"} -> [exc |-> "none", val |-> v.n]
      [] v.tag = "float" /\ v.fk = "nan" -> [exc |-> "ValueError", val |-> 0]
      [] v.tag = "float" /\ v.fk \in {"inf", "ninf"} -> [exc |-> "OverflowError", val |-> 0]
      [] v.tag = "float" -> [exc |-> "none", val |-> Trunc(v.n, v.d)]
      [] v.tag = "str" ->
            LET p == ParseInt(v.s)
            IN  [exc |-> IF p.ok THEN "none" ELSE "ValueError", val |-> p.val]
      [] OTHER -> [exc |-> "TypeError", val |-> 0]

(***************************************************************************)
(* The outcome of a call: the exception that reaches the caller ("none"    *)
(* when the call returns) and the list returned.                           *)
(***************************************************************************)
Returns(xs) == [exc |-> "none", val |-> xs]
Raises(e) == [exc |-> e, val |-> <<>>]

(***************************************************************************)
(* to_integer_values: ValueError and TypeError are caught and the element  *)
(* skipped; any other exception of int(v) leaves the function.             *)
(***************************************************************************)
RECURSIVE to_integer_loop(_, _, _)
to_integer_loop(values, i, integers) ==
    IF i > Len(values) THEN Returns(integers)
    ELSE LET num == PyIntOf(values[i])
         IN  IF num.exc = "none"
             THEN to_integer_loop(values, i + 1, Append(integers, PyInt(num.val)))
             ELSE IF num.exc \in {"ValueError", "TypeError"}
                  THEN to_integer_loop(values, i + 1, integers)
                  ELSE Raises(num.exc)

to_integer_values(values) == to_integer_loop(values, 1, <<>>)

(***************************************************************************)
(* math.log10(v) for v > 0: the exponent when v is a power of ten, the     *)
(* infinity for an infinity, else the symbolic float log10(v).             *)
(***************************************************************************)
RECURSIVE Log10Exact(_, _)
Log10Exact(n, k) ==
    IF n = 1 THEN k
    ELSE IF n % 10 = 0 THEN Log10Exact(n \div 10, k + 1) ELSE -1

Log10(v) ==
    CASE v.fk = "inf" -> PyInf
      [] v.d = 1 /\ Log10Exact(v.n, 0) >= 0 -> PyFloat(Log10Exact(v.n, 0), 1)
      [] v.n = 1 /\ Log10Exact(v.d, 0) >= 0 -> PyFloat(-Log10Exact(v.d, 0), 1)
      [] OTHER -> [Blank EXCEPT !.tag = "float", !.fk = "log10", !.n = v.n, !.d = v.d]

(***************************************************************************)
(* logarithmic_transform: "v > 0" raises TypeError for a value that is no  *)
(* number, and nothing catches it.                                         *)
(***************************************************************************)
RECURSIVE logarithmic_loop(_, _, _)
logarithmic_loop(values, i, transformed) ==
    IF i > Len(values) THEN Returns(transformed)
    ELSE IF ~IsNumber(values[i]) THEN Raises("TypeError")
    ELSE IF NumLt(PyInt(0), values[i])
         THEN logarithmic_loop(values, i + 1, Append(transformed, Log10(values[i])))
         ELSE logarithmic_loop(values, i + 1, transformed)

\* A slip: an element that is not positive leaves the float 0 in its place.
RECURSIVE logarithmic_placeholder_loop(_, _, _)
logarithmic_placeholder_loop(values, i, transformed) ==
    IF i > Len(values) THEN Returns(transformed)
    ELSE IF ~IsNumber(values[i]) THEN Raises("TypeError")
    ELSE IF NumLt(PyInt(0), values[i])
         THEN logarithmic_placeholder_loop(values, i + 1,
                                           Append(transformed, Log10(values[i])))
         ELSE logarithmic_placeholder_loop(values, i + 1,
                                           Append(transformed, PyFloat(0, 1)))

logarithmic_transform_placeholder(values) == logarithmic_placeholder_loop(values, 1, <<>>)

logarithmic_transform(values) == logarithmic_loop(values, 1, <<>>)

(***************************************************************************)
(* tokenize_text.  A text is the sequence of its characters.               *)
(*   texts.lower() maps every upper-case letter to its lower-case letter;  *)
(*   re.findall(r"\b[a-z0-9]+\b", texts) scans the text from the left: at  *)
(*   an index where \b holds and a run of [a-z0-9] begins, the run taken   *)
(*   to its end is a match when \b holds after it, and the scan goes on    *)
(*   after the match; a shorter run ends between two characters of the     *)
(*   run, where \b does not hold, so that there is no match at that index  *)
(*   and the scan goes on at the next index.  \b holds between a word      *)
(*   character and a character that is none, or an end of the text; the    *)
(*   word characters of a str pattern are the letters (of any alphabet),   *)
(*   the digits and the underscore.                                        *)
(***************************************************************************)
UpperLetters ==
    <<"A", "B", "C", "D", "E", "F", "G", "H", "I", "J", "K", "L", "M",
      "N", "O", "P", "Q", "R", "S", "T", "U", "V", "W", "X", "Y", "Z">>
LowerLetters ==
    <<"a", "b", "c", "d", "e", "f", "g", "h", "i", "j", "k", "l", "m",
      "n", "o", "p", "q", "r", "s", "t", "u", "v", "w", "x", "y", "z">>
OtherLetters == { <<"É", "é">> }

ToLower(c) ==
    IF \E k \in 1..26 : UpperLetters[k] = c
    THEN LowerLetters[CHOOSE k \in 1..26 : UpperLetters[k] = c]
    ELSE IF \E pr \in OtherLetters : pr[1] = c
         THEN (CHOOSE pr \in OtherLetters : pr[1] = c)[2]
         ELSE c

PyLower(texts) == [i \in 1..Len(texts) |-> ToLower(texts[i])]

\* [a-z0-9]
IsLowerAlnum(c) == IsDigit(c) \/ \E k \in 1..26 : LowerLetters[k] = c

\* \w
IsWordChar(c) ==
    \/ IsLowerAlnum(c)
    \/ \E k \in 1..26 : UpperLetters[k] = c
    \/ c = "_"
    \/ \E pr \in OtherLetters : c \in {pr[1], pr[2]}

\* \b before index i (after index i - 1) of texts.
WordBoundary(texts, i) ==
    LET left == i > 1 /\ IsWordChar(texts[i - 1])
        right == i <= Len(texts) /\ IsWordChar(texts[i])
    IN  left # right

\* The last index of the run of [a-z0-9] that holds index i.
RECURSIVE RunEnd(_, _)
RunEnd(texts, i) ==
    IF i < Len(texts) /\ IsLowerAlnum(texts[i + 1]) THEN RunEnd(texts, i + 1) ELSE i

RECURSIVE FindAll(_, _, _)
FindAll(texts, i, tokens) ==
    IF i > Len(texts) THEN tokens
    ELSE IF WordBoundary(texts, i) /\ IsLowerAlnum(texts[i])
         THEN LET j == RunEnd(texts, i)
              IN  IF WordBoundary(texts, j + 1)
                  THEN FindAll(texts, j + 1, Append(tokens, PyStr(SubSeq(texts, i, j))))
                  ELSE FindAll(texts, i + 1, tokens)
         ELSE FindAll(texts, i + 1, tokens)

tokenize_text(texts) == FindAll(PyLower(texts), 1, <<>>)

(***************************************************************************)
(* remove_stopwords.  stop_words is a set of str: a token that is a list   *)
(* cannot be hashed (TypeError); a token that is no str is in no case a    *)
(* member.  StopWords stands for stopwords.words("english"), of which it   *)
(* holds a few words.                                                      *)
(***************************************************************************)
StopWords ==
    { <<"i">>, <<"a">>, <<"i", "s">>, <<"f", "o", "r">>, <<"t", "h", "e">>,
      <<"t", "h", "i", "s">> }

\* A slip: token.lower() is looked up instead of token.
RECURSIVE remove_stopwords_lower_loop(_, _, _)
remove_stopwords_lower_loop(tokens, i, filtered_tokens) ==
    IF i > Len(tokens) THEN Returns(filtered_tokens)
    ELSE IF tokens[i].tag = "list" THEN Raises("TypeError")
    ELSE IF ~(tokens[i].tag = "str" /\ PyLower(tokens[i].s) \in StopWords)
         THEN remove_stopwords_lower_loop(tokens, i + 1, Append(filtered_tokens, tokens[i]))
         ELSE remove_stopwords_lower_loop(tokens, i + 1, filtered_tokens)

remove_stopwords_lower(tokens) == remove_stopwords_lower_loop(tokens, 1, <<>>)

RECURSIVE remove_stopwords_loop(_, _, _)
remove_stopwords_loop(tokens, i, filtered_tokens) ==
    IF i > Len(tokens) THEN Returns(filtered_tokens)
    ELSE IF tokens[i].tag = "list" THEN Raises("TypeError")
    ELSE IF ~(tokens[i].tag = "str" /\ tokens[i].s \in StopWords)
         THEN remove_stopwords_loop(tokens, i + 1, Append(filtered_tokens, tokens[i]))
         ELSE remove_stopwords_loop(tokens, i + 1, filtered_tokens)

remove_stopwords(tokens) == remove_stopwords_loop(tokens, 1, <<>>)

(***************************************************************************)
(* flatten_list                                                            *)
(***************************************************************************)
\* A slip: extend by the elements of an inner list instead of by its
\* flattening, so that only one level is opened.
RECURSIVE flatten_shallow_loop(_, _, _)
flatten_shallow_loop(nested_list, i, flat_list) ==
    IF i > Len(nested_list) THEN flat_list
    ELSE IF nested_list[i].tag = "list"
         THEN flatten_shallow_loop(nested_list, i + 1, flat_list \o nested_list[i].items)
         ELSE flatten_shallow_loop(nested_list, i + 1, Append(flat_list, nested_list[i]))

flatten_list_shallow(nested_list) == flatten_shallow_loop(nested_list, 1, <<>>)

RECURSIVE flatten_loop(_, _, _)
flatten_loop(nested_list, i, flat_list) ==
    IF i > Len(nested_list) THEN flat_list
    ELSE IF nested_list[i].tag = "list"
         THEN flatten_loop(nested_list, i + 1,
                           flat_list \o flatten_loop(nested_list[i].items, 1, <<>>))
         ELSE flatten_loop(nested_list, i + 1, Append(flat_list, nested_list[i]))

flatten_list(nested_list) == flatten_loop(nested_list, 1, <<>>)

(***************************************************************************)
(* random.shuffle(x): for i from the last index down to the second, x[i]   *)
(* is swapped with x[j], j drawn from the indices up to i.  js[i] is the   *)
(* j drawn at index i.                                                     *)
(***************************************************************************)
\* A slip: x[i] = x[j] alone, which loses the element at i.
Swap_overwrite(x, i, j) == [x EXCEPT ![i] = x[j]]

Swap(x, i, j) == [x EXCEPT ![i] = x[j], ![j] = x[i]]

RECURSIVE ShuffleFrom(_, _, _)
ShuffleFrom(x, js, i) ==
    IF i < 2 THEN x ELSE ShuffleFrom(Swap(x, i, js[i]), js, i - 1)

Shuffle(x, js) == ShuffleFrom(x, js, Len(x))

\* The draws random.shuffle can make on a list of n elements.
Draws(n) == { js \in [1..n -> 1..(IF n = 0 THEN 1 ELSE n)] : \A i \in 1..n : js[i] <= i }


(***************************************************************************)
(* The caller.  heap maps the live list objects to their elements; arg is  *)
(* the list the caller holds and passes to the functions, ret the list     *)
(* the last call returned (0 when there is none), exc the exception that   *)
(* left the last call ("none" when it returned), op the function last      *)
(* called and params its other arguments, before the elements of the       *)
(* argument when that call began, origin the function that made arg       *)
(* ("input" for a list of the caller's own).                               *)
(***************************************************************************)
VARIABLES heap, arg, ret, exc, op, params, before, origin

vars == <<heap, arg, ret, exc, op, params, before, origin>>

ObjIds == {1, 2}

(***************************************************************************)
(* The lists the caller starts from: every list of at most MaxLen          *)
(* elements of Elems, every list of at most MaxLen numbers of NumElems,    *)
(* and the lists of tests/test_preprocessing.py.                           *)
(***************************************************************************)
Nested == PyList(<<PyInt(1), PyList(<<PyNone>>)>>)

Elems ==
    { PyNone, PyStr(<<>>), PyStr(<<"5">>), PyInt(0), PyBool(FALSE),
      PyNaN(1), PyNaN(2), Nested }

NumElems == { PyInt(-1), PyInt(1), PyBool(TRUE), PyFloat(1, 2), PyFloat(5, 2), PyInf }

ListsUpTo(S, k) == UNION { [1..m -> S] : m \in 0..k }

Ints(ks) == [i \in 1..Len(ks) |-> PyInt(ks[i])]

TestVectors ==
    { <<PyInt(1), PyNone, PyStr(<<>>), PyFloat(7, 2), PyNaN(1),
        PyStr(<<"H", "e", "l", "l", "o">>), PyInt(0)>>,
      Ints(<<1, 2, 2, 3, 1, 4, 5, 3>>),
      Ints(<<10, 20, 30, 40, 50>>),
      Ints(<<5, 5, 5>>),
      Ints(<<1, 2, 3, 4, 5>>),
      Ints(<<-10, 0, 5, 15, 25, 30>>),
      <<PyFloat(1, 1), PyFloat(5, 2), PyFloat(39, 10), PyFloat(-42, 10),
        PyStr(<<"5">>), PyNone>>,
      Ints(<<1, 10, 100, 1000>>),
      <<PyStr(<<"T", "h", "i", "s">>), PyStr(<<"i", "s">>), PyStr(<<"a">>),
        PyStr(<<"t", "e", "s", "t">>), PyStr(<<"f", "o", "r">>)>>,
      <<PyInt(1), PyList(Ints(<<2, 3>>)),
        PyList(<<PyInt(4), PyList(Ints(<<5, 6>>))>>), PyInt(7)>> }

\* Lists with empty lists inside, at two depths.
EmptyInside ==
    { <<PyList(<<>>)>>,
      <<PyList(<<>>), PyInt(1),
        PyList(<<PyList(<<>>), PyList(<<PyInt(2), PyList(<<>>)>>)>>), PyNone>> }

Inputs ==
    ListsUpTo(Elems, MaxLen) \cup ListsUpTo(NumElems, MaxLen) \cup TestVectors
        \cup EmptyInside

\* The other arguments the caller passes.
FillValues == { PyInt(0), PyInt(42) }
RangeBounds == { PyInt(0), PyInt(1), PyFloat(-1, 2) }
ClipBounds == { PyInt(0), PyInt(1), PyInt(20) }

\* min_max_normalize and z_score_normalize are given lists of finite
\* numbers, clip_numerical_values lists of numbers.
FiniteNumbers(values) == \A i \in 1..Len(values) : IsFinite(values[i])
Numbers(values) ==
    \A i \in 1..Len(values) : IsNumber(values[i]) /\ ~IsSymbolic(values[i])

Init ==
    /\ \E L \in Inputs : heap = (1 :> L) /\ before = L
    /\ arg = 1
    /\ ret = 0
    /\ exc = "none"
    /\ op = "init"
    /\ params = <<>>
    /\ origin = "input"

(***************************************************************************)
(* A function that builds its result in a list of its own: the result is   *)
(* a new object of the heap, and the argument stays as it is.  A function  *)
(* that raises returns no object.                                          *)
(***************************************************************************)
Fresh(h, a) == CHOOSE i \in ObjIds : i # a

NewList(h, a, outcome) ==
    IF outcome.exc = "none"
    THEN [heap |-> (a :> h[a]) @@ (Fresh(h, a) :> outcome.val),
          ret |-> Fresh(h, a), exc |-> "none"]
    ELSE [heap |-> (a :> h[a]), ret |-> 0, exc |-> outcome.exc]

(***************************************************************************)
(* random_shuffle_list: shuffled = values[:] is a new object holding the   *)
(* elements of values, random.shuffle(shuffled) permutes that object in    *)
(* place, and it is returned.                                              *)
(***************************************************************************)
\* A slip: shuffled = values, so that random.shuffle permutes the argument.
random_shuffle_list_in_place(h, a, js) ==
    [heap |-> (a :> Shuffle(h[a], js)), ret |-> a, exc |-> "none"]

random_shuffle_list(h, a, js) ==
    LET shuffled == Fresh(h, a)
        copied == (a :> h[a]) @@ (shuffled :> h[a])
    IN  [heap |-> [copied EXCEPT ![shuffled] = Shuffle(copied[shuffled], js)],
         ret |-> shuffled, exc |-> "none"]

\* The caller, between two calls, calls function name with the other
\* arguments prm and gets r.
Call(name, prm, r) ==
    /\ op = "init"
    /\ heap' = r.heap
    /\ ret' = r.ret
    /\ exc' = r.exc
    /\ op' = name
    /\ params' = prm
    /\ before' = heap[arg]
    /\ UNCHANGED <<arg, origin>>

CallRemoveMissing ==
    Call("remove_missing_values", <<>>,
         NewList(heap, arg, Returns(remove_missing_values(heap[arg]))))

CallFillMissing ==
    \E fill_value \in FillValues :
        Call("fill_missing_values", <<fill_value>>,
             NewList(heap, arg, Returns(fill_missing_values(heap[arg], fill_value))))

CallRemoveDuplicates ==
    Call("remove_duplicates", <<>>,
         NewList(heap, arg, Returns(remove_duplicates(heap[arg]))))

CallMinMaxNormalize ==
    /\ FiniteNumbers(heap[arg])
    /\ \E new_min \in RangeBounds, new_max \in RangeBounds :
          Call("min_max_normalize", <<new_min, new_max>>,
               NewList(heap, arg,
                       Returns(min_max_normalize(heap[arg], new_min, new_max))))

CallZScoreNormalize ==
    /\ FiniteNumbers(heap[arg])
    /\ Call("z_score_normalize", <<>>,
            NewList(heap, arg, Returns(z_score_normalize(heap[arg]))))

CallClip ==
    /\ Numbers(heap[arg])
    /\ \E min_value \in ClipBounds, max_value \in ClipBounds :
          Call("clip_numerical_values", <<min_value, max_value>>,
               NewList(heap, arg,
                       Returns(clip_numerical_values(heap[arg], min_value, max_value))))

CallToInteger ==
    Call("to_integer_values", <<>>, NewList(heap, arg, to_integer_values(heap[arg])))

CallLogarithmic ==
    Call("logarithmic_transform", <<>>,
         NewList(heap, arg, logarithmic_transform(heap[arg])))

CallRemoveStopwords ==
    Call("remove_stopwords", <<>>, NewList(heap, arg, remove_stopwords(heap[arg])))

CallFlatten ==
    Call("flatten_list", <<>>, NewList(heap, arg, Returns(flatten_list(heap[arg]))))

CallShuffle ==
    /\ Len(heap[arg]) <= MaxLen
    /\ \E js \in Draws(Len(heap[arg])) :
          Call("random_shuffle_list", <<js>>, random_shuffle_list(heap, arg, js))

(***************************************************************************)
(* The caller is done with the last call and drops what it returned: the   *)
(* next call is given the same list again.                                 *)
(***************************************************************************)
Drop ==
    /\ op # "init"
    /\ heap' = (arg :> heap[arg])
    /\ ret' = 0
    /\ exc' = "none"
    /\ op' = "init"
    /\ params' = <<>>
    /\ before' = heap[arg]
    /\ UNCHANGED <<arg, origin>>

(***************************************************************************)
(* The caller keeps the list a call on a list of its own returned and      *)
(* drops the one it held: the next call is given the result (a list of     *)
(* plain values).                                                          *)
(***************************************************************************)
Feed ==
    /\ origin = "input"
    /\ ret # 0
    /\ ret # arg
    /\ \A i \in 1..Len(heap[ret]) : ~IsSymbolic(heap[ret][i])
    /\ heap' = (ret :> heap[ret])
    /\ arg' = ret
    /\ ret' = 0
    /\ exc' = "none"
    /\ origin' = op
    /\ op' = "init"
    /\ params' = <<>>
    /\ before' = heap[ret]

Next ==
    \/ CallRemoveMissing
    \/ CallFillMissing
    \/ CallRemoveDuplicates
    \/ CallMinMaxNormalize
    \/ CallZScoreNormalize
    \/ CallClip
    \/ CallToInteger
    \/ CallLogarithmic
    \/ CallRemoveStopwords
    \/ CallFlatten
    \/ CallShuffle
    \/ Drop
    \/ Feed

Spec == Init /\ [][Next]_vars


(***************************************************************************)
(* The caller of tokenize_text: arg is a str object of the heap, the text  *)
(* of at most MaxText characters of Chars, or the text of the test.        *)
(***************************************************************************)
MaxText == 4

Chars == { "a", "B", "1", " ", ",", "_", "é" }

TestTexts ==
    { <<"H", "e", "l", "l", "o", ",", " ", "w", "o", "r", "l", "d", "!", " ",
        "-", "-", "-", " ", "T", "h", "i", "s", " ", "i", "s", " ", "a", " ",
        "t", "e", "s", "t", ".">> }

Texts == ListsUpTo(Chars, MaxText) \cup TestTexts

InitText ==
    /\ \E txt \in Texts : heap = (1 :> txt) /\ before = txt
    /\ arg = 1
    /\ ret = 0
    /\ exc = "none"
    /\ op = "init"
    /\ params = <<>>
    /\ origin = "text"

CallTokenize ==
    Call("tokenize_text", <<>>, NewList(heap, arg, Returns(tokenize_text(heap[arg]))))

NextText ==
    \/ CallTokenize
    \/ Drop

SpecText == InitText /\ [][NextText]_vars

(***************************************************************************)
(* The command "clean remove-missing" of src/src/cli.py:                   *)
(*     vals = ast.literal_eval(values)                                     *)
(*     click.echo(remove_missing_values(vals))                             *)
(* values is the text of the option --values.  ast.literal_eval is         *)
(* modelled on the literals the command is given here: lists, int          *)
(* literals, None, True, False and str literals without escapes, with      *)
(* blanks between them.  click.echo writes str(message) and a newline.     *)
(***************************************************************************)
RECURSIVE SkipSpaces(_, _)
SkipSpaces(cs, i) == IF i <= Len(cs) /\ cs[i] = " " THEN SkipSpaces(cs, i + 1) ELSE i

IsLetter(c) == \E k \in 1..26 : c \in {UpperLetters[k], LowerLetters[k]}

\* The last index of the run of letters, digits and underscores that
\* begins at index i.
RECURSIVE NameEnd(_, _)
NameEnd(cs, i) ==
    IF i < Len(cs) /\ (IsLetter(cs[i + 1]) \/ IsDigit(cs[i + 1]) \/ cs[i + 1] = "_")
    THEN NameEnd(cs, i + 1) ELSE i

\* The index of the quote q that closes the str literal opened before
\* index i, or 0.
RECURSIVE ClosingQuote(_, _, _)
ClosingQuote(cs, i, q) ==
    IF i > Len(cs) THEN 0
    ELSE IF cs[i] = q THEN i ELSE ClosingQuote(cs, i + 1, q)

Parsed(v, next) == [exc |-> "none", val |-> v, next |-> next]
NotParsed(e) == [exc |-> e, val |-> PyNone, next |-> 0]

\* The literal that begins at index i, which is no list.
ParseItem(cs, i) ==
    IF i > Len(cs) THEN NotParsed("SyntaxError")
    ELSE IF cs[i] \in {"'", "\""}
         THEN LET j == ClosingQuote(cs, i + 1, cs[i])
              IN  IF j = 0 THEN NotParsed("SyntaxError")
                  ELSE Parsed(PyStr(SubSeq(cs, i + 1, j - 1)), j + 1)
    ELSE IF IsDigit(cs[i]) \/ (cs[i] = "-" /\ i < Len(cs) /\ IsDigit(cs[i + 1]))
         THEN LET b == IF cs[i] = "-" THEN i + 1 ELSE i
                  j == NameEnd(cs, b)
                  digits == ParseDigits(SubSeq(cs, b, j), 1, 0)
              IN  IF ~digits.ok \/ (j > b /\ cs[b] = "0" /\ digits.val # 0)
                  THEN NotParsed("SyntaxError")
                  ELSE Parsed(PyInt(IF cs[i] = "-" THEN -digits.val ELSE digits.val), j + 1)
    ELSE IF IsLetter(cs[i]) \/ cs[i] = "_"
         THEN LET name == SubSeq(cs, i, NameEnd(cs, i))
              IN  IF name = <<"N", "o", "n", "e">> THEN Parsed(PyNone, i + 4)
                  ELSE IF name = <<"T", "r", "u", "e">> THEN Parsed(PyBool(TRUE), i + 4)
                  ELSE IF name = <<"F", "a", "l", "s", "e">> THEN Parsed(PyBool(FALSE), i + 5)
                  ELSE NotParsed("ValueError")
    ELSE NotParsed("SyntaxError")

\* The elements of a list display from index i on, after the elements
\* items; the display ends the text.
RECURSIVE ParseList(_, _, _)
ParseList(cs, i, items) ==
    LET k == SkipSpaces(cs, i)
        closes(m) == m <= Len(cs) /\ cs[m] = "]" /\ SkipSpaces(cs, m + 1) > Len(cs)
    IN  IF closes(k) THEN Parsed(PyList(items), Len(cs) + 1)
        ELSE LET item == ParseItem(cs, k)
                 m == SkipSpaces(cs, item.next)
             IN  IF item.exc # "none" THEN NotParsed(item.exc)
                 ELSE IF m <= Len(cs) /\ cs[m] = ","
                      THEN ParseList(cs, m + 1, Append(items, item.val))
                 ELSE IF closes(m) THEN Parsed(PyList(Append(items, item.val)), Len(cs) + 1)
                 ELSE NotParsed("SyntaxError")

literal_eval(node_or_string) ==
    LET k == SkipSpaces(node_or_string, 1)
    IN  IF k <= Len(node_or_string) /\ node_or_string[k] = "["
        THEN ParseList(node_or_string, k + 1, <<>>)
        ELSE LET item == ParseItem(node_or_string, k)
             IN  IF item.exc # "none" THEN item
                 ELSE IF SkipSpaces(node_or_string, item.next) <= Len(node_or_string)
                      THEN NotParsed("SyntaxError")
                 ELSE item

\* str(k) of an int k >= 0, and of any int.
RECURSIVE NatRepr(_)
NatRepr(k) == IF k < 10 THEN <<Digits[k + 1]>> ELSE Append(NatRepr(k \div 10), Digits[(k % 10) + 1])

IntRepr(k) == IF k < 0 THEN <<"-">> \o NatRepr(-k) ELSE NatRepr(k)

\* repr(s) of a str without escapes: in single quotes, unless s holds a
\* single quote and no double quote.
StrRepr(s) ==
    LET has(q) == \E i \in 1..Len(s) : s[i] = q
        q == IF has("'") /\ ~has("\"") THEN "\"" ELSE "'"
    IN  <<q>> \o s \o <<q>>

\* repr(v) of a value the literals give.
RECURSIVE PyRepr(_)
RECURSIVE ReprItems(_, _)
PyRepr(v) ==
    CASE v.tag = "none" -> <<"N", "o", "n", "e">>
      [] v.tag = "bool" -> IF v.n = 1 THEN <<"T", "r", "u", "e">>
                                      ELSE <<"F", "a", "l", "s", "e">>
      [] v.tag = "int" -> IntRepr(v.n)
      [] v.tag = "str" -> StrRepr(v.s)
      [] v.tag = "list" -> <<"[">> \o ReprItems(v.items, 1) \o <<"]">>

ReprItems(xs, i) ==
    IF i > Len(xs) THEN <<>>
    ELSE IF i = Len(xs) THEN PyRepr(xs[i])
    ELSE PyRepr(xs[i]) \o <<",", " ">> \o ReprItems(xs, i + 1)

\* What click.echo(message) writes for a list message.
echo(message) == PyRepr(PyList(message)) \o <<"\n">>

\* The command: what it writes to the standard output, or the exception
\* that ends it.  A str argument is iterated character by character, any
\* other value that is no list cannot be iterated.
remove_missing(values) ==
    LET vals == literal_eval(values)
    IN  IF vals.exc # "none" THEN Raises(vals.exc)
        ELSE IF vals.val.tag = "list"
             THEN Returns(echo(remove_missing_values(vals.val.items)))
        ELSE IF vals.val.tag = "str"
             THEN Returns(echo(remove_missing_values(
                      [i \in 1..Len(vals.val.s) |-> PyStr(<<vals.val.s[i]>>)])))
        ELSE Raises("TypeError")

(***************************************************************************)
(* The user of the command: arg is the text of --values, a list display    *)
(* of at most MaxItems literals of ItemTexts, one of the texts of the      *)
(* documentation and of the test, or a text that is no list.               *)
(***************************************************************************)
MaxItems == 3

ItemTexts ==
    { <<"1">>, <<"2">>, <<"-", "3">>, <<"N", "o", "n", "e">>, <<"'", "'">>,
      <<"'", "n", "a", "n", "'">> }

RECURSIVE Joined(_, _)
Joined(texts, i) ==
    IF i > Len(texts) THEN <<>>
    ELSE IF i = Len(texts) THEN texts[i]
    ELSE texts[i] \o <<",", " ">> \o Joined(texts, i + 1)

DocValues ==
    <<"[", "1", ",", " ", "2", ",", " ", "N", "o", "n", "e", ",",
    " ", "3", ",", " ", "'", "'", ",", " ", "'", "n", "a", "n",
    "'", "]">>

HelpValues ==
    <<"[", "1", ",", " ", "2", ",", " ", "N", "o", "n", "e", ",",
    " ", "3", ",", " ", "\"", "\"", ",", " ", "\"", "n", "a", "n",
    "\"", "]">>

TestValues ==
    <<"[", "1", ",", " ", "2", ",", " ", "N", "o", "n", "e", ",",
    " ", "'", "'", ",", " ", "3", "]">>

OtherValues ==
    { <<"[", "1", ",", " ", "2">>, <<"[", "1", ",", " ", "n", "a", "n", "]">>,
      <<"7">>, <<"'", "a", "b", "'">>, <<" ", "[", "T", "r", "u", "e", ",", "]", " ">> }

ValuesTexts ==
    { <<"[">> \o Joined(items, 1) \o <<"]">> : items \in ListsUpTo(ItemTexts, MaxItems) }
        \cup {DocValues, HelpValues, TestValues} \cup OtherValues

InitCli ==
    /\ \E txt \in ValuesTexts : heap = (1 :> txt) /\ before = txt
    /\ arg = 1
    /\ ret = 0
    /\ exc = "none"
    /\ op = "init"
    /\ params = <<>>
    /\ origin = "argv"

CallCliRemoveMissing ==
    Call("remove_missing", <<>>, NewList(heap, arg, remove_missing(heap[arg])))

NextCli ==
    \/ CallCliRemoveMissing
    \/ Drop

SpecCli == InitCli /\ [][NextCli]_vars

(***************************************************************************)
(* What the claims speak of.                                               *)
(***************************************************************************)
\* A missing value: None, the empty string or a float NaN.
MissingValue(v) ==
    \/ v.tag = "none"
    \/ (v.tag = "str" /\ Len(v.s) = 0)
    \/ (v.tag = "float" /\ v.fk = "nan")

Present(v) == ~MissingValue(v)

\* The list the last call returned.
Result == heap[ret]

\* C1: remove_missing_values(L) returns, and what it returns is the
\* subsequence of L of the elements that are not None, not the empty string
\* and not a float NaN, each unchanged and in its place among the others
\* (so 0, False, non-empty strings and nested lists survive).
C1_RemoveMissingIsSubsequence ==
    op = "remove_missing_values" =>
        /\ exc = "none"
        /\ Result = SelectSeq(before, Present)

\* A call of remove_missing_values on a list that holds a missing value, 0
\* and False, of which the last two are returned.
C1_Witness ==
    /\ op = "remove_missing_values"
    /\ \E i \in 1..Len(before) : MissingValue(before[i])
    /\ \E i \in 1..Len(before) : before[i] = PyInt(0)
    /\ \E i \in 1..Len(before) : before[i] = PyBool(FALSE)
    /\ Len(Result) = 2

\* C2: fill_missing_values(L, x) is as long as L, and at every index holds
\* x where L holds a missing value and the element of L elsewhere.
C2_FillMissingPositional ==
    op = "fill_missing_values" =>
        /\ exc = "none"
        /\ Len(Result) = Len(before)
        /\ \A i \in 1..Len(before) :
              Result[i] = IF MissingValue(before[i]) THEN params[1] ELSE before[i]

\* A call of fill_missing_values with the value 42 on a list that holds a
\* missing value and one that is not.
C2_Witness ==
    /\ op = "fill_missing_values"
    /\ params[1] = PyInt(42)
    /\ \E i \in 1..Len(before) : MissingValue(before[i])
    /\ \E i \in 1..Len(before) : Present(before[i])

\* C3: no function changes the list it is given: after every call the
\* argument holds the elements it held when the call began, in the same
\* order, and the list returned is another object than the argument.
C3_ArgumentUnchanged ==
    op # "init" =>
        /\ arg \in DOMAIN heap
        /\ heap[arg] = before
        /\ ret # arg

\* A call of random_shuffle_list that returned three elements in another
\* order than that of its argument.
C3_Witness ==
    /\ op = "random_shuffle_list"
    /\ Len(before) = 3
    /\ Result # before
    /\ heap[arg] = before

\* The elements of L that no earlier element of L is taken for, in the
\* order of L, when same(x, y) says that x is taken for y.
FirstOccurrences(L, same(_, _)) ==
    LET firsts == SelectSeq([k \in 1..Len(L) |-> k],
                            LAMBDA k : \A j \in 1..(k - 1) : ~same(L[j], L[k]))
    IN  [i \in 1..Len(firsts) |-> L[firsts[i]]]

\* x is y or x == y: the test of Python's "in".
SameOrEqual(x, y) == x = y \/ PyEq(x, y)

\* C4 as stated: no two elements of remove_duplicates(L) are equal, every
\* element of L equals an element of the result, and the result holds the
\* distinct values of L in the order of their first occurrence.
C4_Original ==
    op = "remove_duplicates" =>
        /\ \A i, j \in 1..Len(Result) : i # j => ~PyEq(Result[i], Result[j])
        /\ \A k \in 1..Len(before) : \E i \in 1..Len(Result) : PyEq(before[k], Result[i])
        /\ Result = FirstOccurrences(before, PyEq)

\* C4, amended: no two elements of remove_duplicates(L) are the same object
\* or equal, every element of L is the same object as, or equal to, an
\* element of the result, and the result holds the elements of L that no
\* earlier element is the same as or equal to, in the order of L.  A NaN
\* equals nothing, itself included: two NaN objects are both kept.
C4_DistinctInFirstOccurrenceOrder ==
    op = "remove_duplicates" =>
        /\ exc = "none"
        /\ \A i, j \in 1..Len(Result) : i # j => ~SameOrEqual(Result[i], Result[j])
        /\ \A k \in 1..Len(before) :
              \E i \in 1..Len(Result) : SameOrEqual(before[k], Result[i])
        /\ Result = FirstOccurrences(before, SameOrEqual)

\* A call of remove_duplicates on x, y, x with x and y different, which
\* returned x, y.
C4_Witness ==
    /\ op = "remove_duplicates"
    /\ Len(before) = 3
    /\ PyEq(before[1], before[3])
    /\ ~PyEq(before[1], before[2])
    /\ Result = <<before[1], before[2]>>

\* C5: remove_duplicates is idempotent: called on a list that it returned,
\* it returns a list equal to its argument.
C5_RemoveDuplicatesIdempotent ==
    (op = "remove_duplicates" /\ origin = "remove_duplicates") =>
        /\ exc = "none"
        /\ PyListEq(Result, before)
        /\ Result = before

\* A second call of remove_duplicates, on a result of at least two elements.
C5_Witness ==
    /\ op = "remove_duplicates"
    /\ origin = "remove_duplicates"
    /\ Len(before) >= 2
    /\ ret # 0


\* C6 as stated: to_integer_values and logarithmic_transform return a list
\* for every list of integers, floats (infinities and NaN among them),
\* text, None and nested lists: no exception reaches the caller.
C6_NeverRaises ==
    op \in {"to_integer_values", "logarithmic_transform"} => exc = "none"

\* b lies between a and c.
Between(a, b, c) == RLeq(a, b) /\ RLeq(b, c)

\* The list holds two values that differ.
TwoDistinct(values) ==
    \E i, j \in 1..Len(values) : ~PyEq(values[i], values[j])

C8_DegenerateIsZero ==
    op = "min_max_normalize" =>
        /\ Len(before) = 0 => Len(Result) = 0
        /\ (Len(before) > 0 /\ ~TwoDistinct(before)) =>
              /\ Len(Result) = Len(before)
              /\ \A i \in 1..Len(Result) : Result[i] = PyFloat(0, 1)

\* A call of min_max_normalize on two or more equal values with new_min
\* other than 0.
C8_Witness ==
    /\ op = "min_max_normalize"
    /\ Len(before) >= 2
    /\ ~TwoDistinct(before)
    /\ params[1] # PyInt(0)
    /\ Len(Result) = Len(before)

\* The least and the greatest number of a list.
Least(values) ==
    CHOOSE m \in {Rat(values[i]) : i \in 1..Len(values)} :
        \A i \in 1..Len(values) : RLeq(m, Rat(values[i]))
Greatest(values) ==
    CHOOSE m \in {Rat(values[i]) : i \in 1..Len(values)} :
        \A i \in 1..Len(values) : RLeq(Rat(values[i]), m)

NumLeq(a, b) == a.fk # "nan" /\ b.fk # "nan" /\ ~NumLt(b, a)

\* v clamped into [lo, hi]: lo below lo, hi above hi, v itself otherwise.
Clamped(v, lo, hi) == IF NumLt(v, lo) THEN lo ELSE IF NumLt(hi, v) THEN hi ELSE v

\* C11 as stated: for min_value <= max_value, clip_numerical_values returns
\* a list as long as its argument of which element i is min_value when
\* v_i < min_value, max_value when v_i > max_value and v_i otherwise, and
\* every element returned lies in [min_value, max_value].
C11_Original ==
    (op = "clip_numerical_values" /\ NumLeq(params[1], params[2])) =>
        /\ Len(Result) = Len(before)
        /\ \A i \in 1..Len(before) :
              /\ Result[i] = Clamped(before[i], params[1], params[2])
              /\ NumLeq(params[1], Result[i]) /\ NumLeq(Result[i], params[2])

\* C11, amended: for min_value <= max_value, element i of the result is
\* min_value when v_i < min_value, max_value when v_i > max_value and v_i
\* otherwise; every element returned that is not a NaN lies in
\* [min_value, max_value], a value in the range is returned as it is, and
\* so is a NaN, which is neither below min_value nor above max_value.
C11_ClipClamps ==
    (op = "clip_numerical_values" /\ NumLeq(params[1], params[2])) =>
        /\ exc = "none"
        /\ Len(Result) = Len(before)
        /\ \A i \in 1..Len(before) :
              /\ Result[i] = Clamped(before[i], params[1], params[2])
              /\ before[i].fk # "nan" =>
                    NumLeq(params[1], Result[i]) /\ NumLeq(Result[i], params[2])
              /\ before[i].fk = "nan" => Result[i] = before[i]
              /\ (NumLeq(params[1], before[i]) /\ NumLeq(before[i], params[2])) =>
                    Result[i] = before[i]

\* A call of clip_numerical_values with the bounds 0 and 20 on a list that
\* holds a value below 0, one above 20 and one between them.
C11_Witness ==
    /\ op = "clip_numerical_values"
    /\ params = <<PyInt(0), PyInt(20)>>
    /\ \E i \in 1..Len(before) : NumLt(before[i], PyInt(0)) /\ Result[i] = PyInt(0)
    /\ \E i \in 1..Len(before) : NumLt(PyInt(20), before[i]) /\ Result[i] = PyInt(20)
    /\ \E i \in 1..Len(before) :
          NumLt(PyInt(0), before[i]) /\ NumLt(before[i], PyInt(20)) /\ Result[i] = before[i]


\* An element int() converts: an int, a bool, a float that is a number (no
\* NaN and no infinity), a str that holds an integer.
Convertible(v) ==
    \/ v.tag \in {"int", "bool"}
    \/ (v.tag = "float" /\ v.fk = "fin")
    \/ (v.tag = "str" /\ ParseInt(v.s).ok)

\* The integer a convertible element stands for: of a float x the integer k
\* of the sign of x with |k| <= |x| < |k| + 1.
IntegerOf(v) ==
    IF v.tag = "str" THEN ParseInt(v.s).val
    ELSE CHOOSE k \in -(Abs(v.n))..Abs(v.n) :
            /\ Abs(k) * v.d <= Abs(v.n)
            /\ Abs(v.n) < (Abs(k) + 1) * v.d
            /\ (k # 0 => (k > 0 <=> v.n > 0))

\* C12 as stated: to_integer_values returns, in the order of its argument,
\* the integer of every element that converts (a float truncated toward
\* zero, a str of digits parsed) and nothing for an element that does not
\* convert: the result is as long as the number of elements that convert.
C12_ToIntegerConverts ==
    op = "to_integer_values" =>
        LET kept == SelectSeq(before, Convertible)
        IN  /\ exc = "none"
            /\ Len(Result) = Len(kept)
            /\ \A i \in 1..Len(kept) : Result[i] = PyInt(IntegerOf(kept[i]))


\* 10 to the power k, k a natural number.
RECURSIVE Pow10(_)
Pow10(k) == IF k = 0 THEN 1 ELSE 10 * Pow10(k - 1)

\* y is the base-10 logarithm of the positive number x: the infinity for
\* the infinity, the float k when x is 10 to the power k (k an integer),
\* and the logarithm of x kept as such otherwise.
IsLog10Of(y, x) ==
    /\ y.tag = "float"
    /\ \/ x.fk = "inf" /\ y.fk = "inf"
       \/ /\ x.fk = "fin" /\ y.fk = "fin" /\ y.d = 1
          /\ IF y.n >= 0 THEN x.n = Pow10(y.n) /\ x.d = 1
                         ELSE x.n = 1 /\ x.d = Pow10(-y.n)
       \/ /\ x.fk = "fin" /\ y.fk = "log10" /\ y.n = x.n /\ y.d = x.d
          /\ \A k \in 0..9 : ~(x.n = Pow10(k) /\ x.d = 1) /\ ~(x.n = 1 /\ x.d = Pow10(k))

StrictlyPositive(v) == NumLt(PyInt(0), v)

MaximalRuns(texts) ==
    LET starts == SelectSeq([k \in 1..Len(texts) |-> k],
                            LAMBDA k : /\ IsLowerAlnum(texts[k])
                                       /\ (k = 1 \/ ~IsLowerAlnum(texts[k - 1])))
        end(k) == CHOOSE j \in k..Len(texts) :
                     /\ \A m \in k..j : IsLowerAlnum(texts[m])
                     /\ (j = Len(texts) \/ ~IsLowerAlnum(texts[j + 1]))
    IN  [i \in 1..Len(starts) |-> PyStr(SubSeq(texts, starts[i], end(starts[i])))]

\* C14 as stated: the tokens tokenize_text returns are the maximal runs of
\* characters of [a-z0-9] of the text in lower case, from the left to the
\* right: whatever else stands between two runs (punctuation, the
\* underscore, blanks) only separates them, and no run is lost.
C14_TokensAreMaximalRuns ==
    op = "tokenize_text" =>
        /\ exc = "none"
        /\ Len(Result) = Len(MaximalRuns(PyLower(before)))
        /\ \A i \in 1..Len(Result) : Result[i] = MaximalRuns(PyLower(before))[i]


\* The elements of a list and of the lists inside it that are not lists,
\* from the left to the right.
RECURSIVE Leaves(_)
Leaves(xs) ==
    IF xs = <<>> THEN <<>>
    ELSE (IF Head(xs).tag = "list" THEN Leaves(Head(xs).items) ELSE <<Head(xs)>>)
             \o Leaves(Tail(xs))

\* C15: flatten_list returns a list without a list in it that holds the
\* elements of the argument that are not lists, at any depth, from the
\* left to the right (a list with nothing in it leaves nothing); flattening
\* the result again, by a second call too, gives the result.
C15_FlattenIsLeaves ==
    /\ op = "flatten_list" =>
          /\ exc = "none"
          /\ \A i \in 1..Len(Result) : Result[i].tag # "list"
          /\ Result = Leaves(before)
          /\ flatten_list(Result) = Result
    /\ (op = "flatten_list" /\ origin = "flatten_list") => Result = before

C15_Witness ==
    /\ op = "flatten_list"
    /\ \E i \in 1..Len(before) :
          /\ before[i].tag = "list"
          /\ \E j \in 1..Len(before[i].items) :
                /\ before[i].items[j].tag = "list"
                /\ before[i].items[j].items # <<>>
    /\ \E i \in 1..Len(before) : before[i] = PyList(<<>>)
    /\ Len(Result) = 3

\* How many times v is an element of xs.
Count(v, xs) == Cardinality({ i \in 1..Len(xs) : xs[i] = v })

\* The lists that hold the elements of xs in another order.
Rearrangements(xs) ==
    { [i \in 1..Len(xs) |-> xs[f[i]]] :
        f \in { g \in [1..Len(xs) -> 1..Len(xs)] :
                  \A i, j \in 1..Len(xs) : g[i] = g[j] => i = j } }

\* C16: whatever the generator draws, random_shuffle_list returns a list
\* as long as the argument that holds every element as many times as the
\* argument does; and the lists it returns for the draws the generator can
\* make are the permutations of the argument, every one of them.  (This
\* last part speaks of the argument alone: it is stated once for each
\* argument, in the state where the draws have left every element in its
\* place.)
C16_ShuffleIsPermutation ==
    op = "random_shuffle_list" =>
        /\ exc = "none"
        /\ Len(Result) = Len(before)
        /\ \A i \in 1..Len(before) : Count(before[i], Result) = Count(before[i], before)
        /\ params[1] = [i \in 1..Len(before) |-> i] =>
              { random_shuffle_list(heap, arg, js).heap[ret] : js \in Draws(Len(before)) }
                  = Rearrangements(before)

C16_Witness ==
    /\ op = "random_shuffle_list"
    /\ Len(before) = 3
    /\ Count(before[1], before) = 2
    /\ Result # before
    /\ Result[3] = before[1]

\* A token remove_stopwords keeps: it is not, letter for letter, a word of
\* the stopword set.
KeptToken(v) == ~(v.tag = "str" /\ \E w \in StopWords : w = v.s)

\* C17: of a list of tokens (none of them a list), remove_stopwords returns
\* the tokens that are not, letter for letter and case for case, a word of
\* the stopword set, in their order; of 'This', 'is', 'a', 'test', 'for' it
\* returns 'This', 'test'.
C17_StopwordsCaseSensitive ==
    (op = "remove_stopwords" /\ \A i \in 1..Len(before) : before[i].tag # "list") =>
        /\ exc = "none"
        /\ Result = SelectSeq(before, KeptToken)
        /\ \A i \in 1..Len(before) :
              (before[i].tag = "str" /\ before[i].s = <<"T", "h", "i", "s">>)
                  => \E k \in 1..Len(Result) : Result[k] = before[i]

C17_Witness ==
    /\ op = "remove_stopwords"
    /\ \E i \in 1..Len(before) : before[i] = PyStr(<<"T", "h", "i", "s">>)
    /\ \E i \in 1..Len(before) : before[i] = PyStr(<<"f", "o", "r">>)
    /\ Result = <<PyStr(<<"T", "h", "i", "s">>), PyStr(<<"t", "e", "s", "t">>)>>

\* The values the documentation of the command counts as missing: None,
\* the empty string and the string 'nan'.
MissingByDoc(v) == v.tag = "none" \/ (v.tag = "str" /\ v.s \in {<<>>, <<"n", "a", "n">>})

PresentByDoc(v) == ~MissingByDoc(v)

\* C18 as stated: the command "clean remove-missing" takes the string 'nan'
\* for a missing value: of a list literal it prints the list without the
\* elements None, '' and 'nan', and of [1, 2, None, 3, '', 'nan'] it
\* prints [1, 2, 3].
C18_NanStringIsMissing ==
    /\ (op = "remove_missing" /\ before = DocValues) =>
          /\ exc = "none"
          /\ Result = <<"[", "1", ",", " ", "2", ",", " ", "3", "]", "\n">>
    /\ (op = "remove_missing" /\ exc = "none" /\ literal_eval(before).val.tag = "list") =>
          Result = echo(SelectSeq(literal_eval(before).val.items, PresentByDoc))

====
